---- MODULE Spec2Model ----
(***************************************************************************)
(* State-machine model of the reach-link printer agent                     *)
(* (src/src/reach-link-agent.py, src/src/firebase_rtdb_client.py).         *)
(*                                                                         *)
(* Every action is one outbound call of the agent together with the local  *)
(* computation that follows it up to the next outbound call.  The replies  *)
(* of the relay, of the RTDB store and of Moonraker are inputs, drawn from *)
(* small sets.                                                             *)
(***************************************************************************)
EXTENDS Integers, Sequences, FiniteSets, TLC

\* ------------------------------------------------------------------ bounds

\* Number of distinct request ids a client may place in the QUERY subtree.
MaxCmds == 2

\* time.time() when run() starts, and how far the model lets the clock advance.
StartClock == 100
MaxElapsed == 5

\* Longest time, in seconds, the calls of one tick take in the model.
MaxCallTime == 0

\* Largest max_retries a caller of the transport passes in the model.
MaxRetries == 4

\* Config: REACH_LINK_HEARTBEAT_INTERVAL and REACH_LINK_TELEMETRY_INTERVAL, in
\* seconds (60 and 10 when unset), scaled down to a few ticks.
HeartbeatInterval == 3
TelemetryInterval == 2

\* Length, in seconds, of the scheduler run that starts at StartClock with the
\* default intervals.
RunSeconds == 65

\* Seconds left until the refresh margin of the token is reached, for an
\* agent that has been running for most of the token's lifetime.
SecondsToMargin == 2

RequestIds == 1..MaxCmds

\* Durations reported by Moonraker range over -MaxDuration..MaxDuration seconds.
MaxDuration == 2

\* The clock of the store client runs for MaxMillis milliseconds.
MaxMillis == 2

\* ---------------------------------------------------------------- inputs

\* Shape of one entry of the QUERY subtree, as process_pending_commands sees it:
\*   "cmd"    a JSON object with a non-empty "command"
\*   "nocmd"  a JSON object whose "command" is missing or empty
\*   "scalar" not a JSON object (command_data.get raises AttributeError)
EntryKinds == {"cmd", "nocmd", "scalar"}

\* What the POST to Moonraker yields inside proxy_command_to_moonraker:
\*   "dict_ok"  2xx, body a JSON object without an "error" key
\*   "dict_err" 2xx, body a JSON object with an "error" key (no "errorCode")
\*   "fail"     network error, non-2xx status or unparseable body (an exception)
\*   "null"     2xx, body a JSON null, number or boolean
\*   "seq_ok"   2xx, body a JSON array or string that does not contain "error"
\*   "seq_err"  2xx, body a JSON array or string that contains "error"
DeviceOutcomes == {"dict_ok", "dict_err", "fail", "null", "seq_ok", "seq_err"}

\* Reply of the store to one urlopen of FirebaseRTDB (PUT, DELETE, PATCH).
StoreOutcomes == {"ok", "fail", "http401"}

VARIABLES
    queue,            \* RTDB /printers/{id}/QUERY: request id -> entry kind or "absent"
    responses,        \* RTDB /printers/{id}/RESPONSE: request id -> status or "none"
    cpc,              \* position inside process_pending_commands
    commands,         \* the mapping read_commands returned, in iteration order
    idx,              \* index of the loop over commands.items()
    result,           \* value returned by proxy_command_to_moonraker
    processed_count,  \* processed_count of process_pending_commands
    log,              \* calls issued by the cycle in progress, in order
    http,             \* the HTTPClient request in progress (loop variables, return value)
    clock,            \* time.time(), in whole seconds
    pc,               \* position inside run()
    now,              \* `now` of run(): the clock read at the top of the tick
    last_heartbeat,   \* self.last_heartbeat
    last_telemetry,   \* self.last_telemetry
    token_expires_at, \* self.token_expires_at
    shutdown,         \* self.shutdown_event
    config,           \* self.config: the intervals, user_id, firebase_token
    rtdb_token,       \* self.rtdb.firebase_token, 0 when self.rtdb is None
    seen401,          \* history: a relay or store call has been answered 401
    last_poll,        \* history: the clock at the previous poll cycle, -1 if none
    hist,             \* history: calls counted since the start, the last refresh
    horizon,          \* the clock value at which the model stops the run
    route,            \* one routing decision of proxy_command_to_moonraker
    moonraker,        \* one MoonrakerClient.get_status: the upstream status, the snapshot
    fb                \* a FirebaseRealtimeDatabaseClient and the store behind it

cmdvars == <<queue, responses, cpc, commands, idx, result, processed_count, log>>

runvars == <<pc, now, last_heartbeat, last_telemetry, token_expires_at, shutdown,
             config, rtdb_token>>

\* The objects that are also examined on their own, outside run().
unitvars == <<route, moonraker, fb>>

vars == <<queue, responses, cpc, commands, idx, result, processed_count, log, http,
          clock, pc, now, last_heartbeat, last_telemetry, token_expires_at, shutdown,
          config, rtdb_token, seen401, last_poll, hist, horizon, route, moonraker, fb>>

\* What one urlopen of HTTPClient.post_json / get_json yields:
\*   "dict"     2xx, body a non-empty JSON object
\*   "nondict"  2xx, body a truthy JSON value that is not an object
\*   "falsy"    2xx, body a falsy JSON value other than null ({}, [], 0, "")
\*   "null"     2xx, body the JSON null
\*   "empty"    2xx, empty body
\*   "http401"  HTTPError with code 401 (a URLError)
\*   "httperr"  HTTPError with another code (a URLError)
\*   "neterr"   timeout, refused connection, DNS failure (URLError / OSError)
\*   "exc"      any other exception (an unparseable body, an http.client error)
SuccessOutcomes == {"dict", "nondict", "falsy", "null", "empty"}
RetryOutcomes == {"http401", "httperr", "neterr"}
HttpOutcomes == SuccessOutcomes \cup RetryOutcomes \cup {"exc"}

\* The max_retries arguments in use: 3 by default, 2 in read_commands.
DefaultMaxRetries == 3
ReadMaxRetries == 2

\* run() line 684: the assumed lifetime of a token; should_refresh_token line
\* 503: the margin before expiry; the sleeps of run() lines 728 and 732.
TokenTTL == 3600
RefreshMargin == 600
TickSleep == 1
ErrorSleep == 5

\* Config lines 70-75: the intervals when the environment does not set them.
DefaultHeartbeatInterval == 60
DefaultTelemetryInterval == 10

\* REACH_LINK_COMMAND_POLL_INTERVAL as the installer's unit file sets it
\* (src/helper/ssh_executor.py); Config does not read it.
commandPollIntervalSeconds == 4

\* -------------------------------------------------------- pure functions

\* ---- HTTPClient.post_json / get_json

\* 2 ** attempt
Pow2(n) == 2 ^ n

\* The loop's state before the first attempt.  ret is the value returned once
\* done: "None", or the shape of the parsed body.
HttpStart(fn, max_retries) ==
    [fn |-> fn, max_retries |-> max_retries, attempt |-> 0,
     done |-> max_retries = 0, ret |-> "None",
     outs |-> <<>>, waits |-> <<>>]

HttpIdle == HttpStart("none", 0)

\* What a 2xx reply makes the function return: the parsed body, None for an
\* empty body in post_json (line 178); get_json hands the empty body to
\* json.loads, which raises, and returns None from `except Exception`.
ParsedBody(fn, o) ==
    CASE o = "dict"    -> "dict"
      [] o = "nondict" -> "nondict"
      [] o = "falsy"   -> "falsy"
      [] o = "null"    -> "None"
      [] o = "empty"   -> "None"

\* Mutant of BackoffWaits: the test `attempt < max_retries - 1` is missing, so
\* the client also sleeps after the last allowed attempt.
BackoffWaits_AfterLast(st) == Append(st.waits, 2 ^ st.attempt)

\* The wait of the except branch for (URLError, OSError), lines 181-187.
BackoffWaits(st) ==
    IF st.attempt < st.max_retries - 1
    THEN Append(st.waits, Pow2(st.attempt)) ELSE st.waits

\* Mutant of HttpStep: the loop runs once more than max_retries
\* (range(max_retries + 1)).
HttpStep_OneMore(st, o) ==
    LET seen == [st EXCEPT !.outs = Append(@, o)]
    IN  IF o \in SuccessOutcomes
        THEN [seen EXCEPT !.done = TRUE, !.ret = ParsedBody(st.fn, o)]
        ELSE IF o \in RetryOutcomes
        THEN [seen EXCEPT !.waits = BackoffWaits(st),
                          !.attempt = @ + 1,
                          !.done = (st.attempt + 1 >= st.max_retries + 1),
                          !.ret = "None"]
        ELSE [seen EXCEPT !.done = TRUE, !.ret = "None"]

\* One iteration of `for attempt in range(max_retries)` with reply o.
HttpStep(st, o) ==
    LET seen == [st EXCEPT !.outs = Append(@, o)]
    IN  IF o \in SuccessOutcomes
        THEN [seen EXCEPT !.done = TRUE, !.ret = ParsedBody(st.fn, o)]
        ELSE IF o \in RetryOutcomes
        THEN [seen EXCEPT !.waits = BackoffWaits(st),
                          !.attempt = @ + 1,
                          !.done = (st.attempt + 1 >= st.max_retries),
                          !.ret = "None"]
        ELSE [seen EXCEPT !.done = TRUE, !.ret = "None"]

\* The whole call, given the replies of its attempts in order.
RECURSIVE HttpRun(_, _)
HttpRun(st, outs) ==
    IF st.done \/ Len(st.outs) >= Len(outs) THEN st
    ELSE HttpRun(HttpStep(st, outs[Len(st.outs) + 1]), outs)

\* Sum of the waits the call slept (time.sleep at lines 187 and 216).
RECURSIVE SumSeq(_)
SumSeq(s) == IF s = <<>> THEN 0 ELSE Head(s) + SumSeq(Tail(s))

\* Whether one of the attempts made was answered 401.
Saw401(st) == \E i \in 1..Len(st.outs) : st.outs[i] = "http401"

\* RelayClient.register_heartbeat, lines 337-341, on the value post_json
\* returned: "True", "False", or "raise" (response.get on a value without get).
register_heartbeat(response) ==
    CASE response = "dict"    -> "True"
      [] response = "nondict" -> "raise"
      [] OTHER                -> "False"

\* RelayClient.send_telemetry, lines 360-364.
send_telemetry(response) ==
    IF response \in {"dict", "nondict"} THEN "True" ELSE "False"

\* ---- process_pending_commands

NoResult == [shape |-> "none", has_error |-> FALSE, errorCode |-> "none"]

\* Mutant of proxy_command_to_moonraker: the except branch returns the error
\* text alone, without an errorCode.
proxy_NoErrorCode(o) ==
    CASE o = "fail"     -> [shape |-> "dict", has_error |-> TRUE, errorCode |-> "none"]
      [] o = "dict_ok"  -> [shape |-> "dict", has_error |-> FALSE, errorCode |-> "none"]
      [] o = "dict_err" -> [shape |-> "dict", has_error |-> TRUE, errorCode |-> "none"]
      [] o = "null"     -> [shape |-> "scalar", has_error |-> FALSE, errorCode |-> "none"]
      [] o = "seq_ok"   -> [shape |-> "seq", has_error |-> FALSE, errorCode |-> "none"]
      [] o = "seq_err"  -> [shape |-> "seq", has_error |-> TRUE, errorCode |-> "none"]

\* The value proxy_command_to_moonraker returns for each device outcome.  Any
\* exception is turned into {"error": ..., "errorCode": "moonraker_error"}; a
\* parsed body is returned as it is, whatever its JSON type.
proxy_command_to_moonraker(o) ==
    CASE o = "fail"     -> [shape |-> "dict", has_error |-> TRUE, errorCode |-> "moonraker_error"]
      [] o = "dict_ok"  -> [shape |-> "dict", has_error |-> FALSE, errorCode |-> "none"]
      [] o = "dict_err" -> [shape |-> "dict", has_error |-> TRUE, errorCode |-> "none"]
      [] o = "null"     -> [shape |-> "scalar", has_error |-> FALSE, errorCode |-> "none"]
      [] o = "seq_ok"   -> [shape |-> "seq", has_error |-> FALSE, errorCode |-> "none"]
      [] o = "seq_err"  -> [shape |-> "seq", has_error |-> TRUE, errorCode |-> "none"]

\* Whether the statements between the device call and write_response raise:
\* `"error" in result` raises TypeError on a null, number or boolean, and
\* result.get("errorCode", ...) raises AttributeError on an array or string.
ResultRaises(r) ==
    \/ r.shape = "scalar"
    \/ r.shape = "seq" /\ r.has_error

\* Mutant of ResponseStatus: the test `"error" in result` is missing, every
\* result is written as a success.
ResponseStatus_AlwaysSuccess(r) == "success"

\* The status process_pending_commands passes to write_response.
ResponseStatus(r) == IF r.has_error THEN "error" ELSE "success"

\* The error_code argument: result.get("errorCode", "unknown_error").
ResponseErrorCode(r) ==
    IF ~r.has_error THEN "none"
    ELSE IF r.errorCode = "none" THEN "unknown_error" ELSE r.errorCode

\* Mutant of Snapshot: the mapping is walked twice, every entry comes up again.
Snapshot_Twice(q) ==
    LET present == {r \in RequestIds : q[r] # "absent"}
        n == Cardinality(present)
    IN  [i \in 1..(2 * n) |->
            LET k == IF i > n THEN i - n ELSE i
                r == CHOOSE r \in present : Cardinality({s \in present : s < r}) = k - 1
            IN  [request_id |-> r, kind |-> q[r]]]

\* The QUERY subtree as the mapping read_commands returns, in key order.
Snapshot(q) ==
    LET present == {r \in RequestIds : q[r] # "absent"}
    IN  [i \in 1..Cardinality(present) |->
            LET r == CHOOSE r \in present : Cardinality({s \in present : s < r}) = i - 1
            IN  [request_id |-> r, kind |-> q[r]]]

\* Mutant of NextCall: the test `if not command` is missing, every entry is
\* proxied to the device.
NextCall_NoCommandTest(cmds, i) ==
    IF i > Len(cmds) THEN "done" ELSE "device"

\* Mutant of NextCall: the inner try is missing, the exception raised by an
\* entry that is not an object ends the loop at the outer handler.
NextCall_RaiseEndsLoop(cmds, i) ==
    IF i > Len(cmds) THEN "done"
    ELSE IF cmds[i].kind = "cmd" THEN "device"
    ELSE IF cmds[i].kind = "scalar" THEN "done"
    ELSE "delete"

\* The call the loop over commands.items() issues next, from item i on:
\* the device call for an entry with a command, a delete_command for an entry
\* without one (line 615) or for one whose extraction raised (line 645).
NextCall(cmds, i) ==
    IF i > Len(cmds) THEN "done"
    ELSE IF cmds[i].kind = "cmd" THEN "device" ELSE "delete"

\* The body of the store's reply to the GET of the QUERY subtree: the subtree
\* as a JSON object, or null when it is empty or missing.
StoreBody(q) == IF \E r \in RequestIds : q[r] # "absent" THEN "dict" ELSE "null"

\* What one attempt of that GET yields: the store's reply or an error.
ReadOutcomes == {"store"} \cup RetryOutcomes \cup {"exc"}

\* Every way the get_json of read_commands can go when the store answers
\* with `body`.
ReadResults(body) ==
    {HttpRun(HttpStart("get_json", ReadMaxRetries),
             [i \in 1..ReadMaxRetries |-> IF outs[i] = "store" THEN body ELSE outs[i]]) :
        outs \in [1..ReadMaxRetries -> ReadOutcomes]}

Event(op, rid, status, ok) == [op |-> op, rid |-> rid, status |-> status, ok |-> ok]

\* ---- SubnetDetector and the routing of proxy_command_to_moonraker

\* An address as the agent holds it, a string: none (None or ""), a dotted
\* IPv4 address with its four octets, or text that ipaddress cannot parse.
NoAddress == [kind |-> "none", octets |-> <<>>]
BadAddress == [kind |-> "bad", octets |-> <<>>]

V4(a, b, c, d) == [kind |-> "v4", octets |-> <<a, b, c, d>>]

\* The addresses the model draws from: two /16 ranges, two /24 networks in
\* each, two hosts in each network.
Addresses == {V4(a, 0, c, d) : a \in {10, 192}, c \in {0, 1}, d \in {5, 9}}
AddressInputs == Addresses \cup {NoAddress, BadAddress}

\* Line 553: "http://127.0.0.1:7125".
Loopback == V4(127, 0, 0, 1)

\* ipaddress.ip_network(f"{ip}/24", strict=False): the host bits are cleared.
Network24(ip) == <<ip.octets[1], ip.octets[2], ip.octets[3], 0>>

\* Mutant of is_same_subnet: the networks compared are /16.
is_same_subnet_Slash16(printer_ip, user_ip) ==
    IF printer_ip.kind = "v4" /\ user_ip.kind = "v4"
    THEN /\ printer_ip.octets[1] = user_ip.octets[1]
         /\ printer_ip.octets[2] = user_ip.octets[2]
    ELSE FALSE

\* SubnetDetector.is_same_subnet (lines 118-134): ip_address raises ValueError
\* on text that is no address, and the handler answers False.
is_same_subnet(printer_ip, user_ip) ==
    IF printer_ip.kind = "v4" /\ user_ip.kind = "v4"
    THEN Network24(printer_ip) = Network24(user_ip)
    ELSE FALSE

\* Mutant of moonraker_base: the LAN address is chosen for a local originator.
moonraker_base_LanWhenLocal(user_ip, printer_ip) ==
    IF user_ip.kind # "none" /\ printer_ip.kind # "none"
    THEN IF is_same_subnet(printer_ip, user_ip) THEN printer_ip ELSE Loopback
    ELSE Loopback

\* Lines 551-565: the host of moonraker_base.  self.subnet_detector is set
\* when config.printer_ip is (line 481), and an empty user_ip is passed as
\* None (line 621).
moonraker_base(user_ip, printer_ip) ==
    IF user_ip.kind # "none" /\ printer_ip.kind # "none"
    THEN IF ~is_same_subnet(printer_ip, user_ip) /\ printer_ip.kind # "none"
         THEN printer_ip
         ELSE Loopback
    ELSE Loopback

\* Before the routing decision is taken.
NoRoute == [user_ip |-> NoAddress, printer_ip |-> NoAddress, target |-> NoAddress]

\* ---- MoonrakerClient.get_status

\* A member of print_stats that should be a number: a number, JSON null, or
\* not there at all.
Number(n) == [kind |-> "number", v |-> n]
NullValue == [kind |-> "null", v |-> 0]
Missing == [kind |-> "missing", v |-> 0]

Durations == {Number(n) : n \in -MaxDuration..MaxDuration} \cup {NullValue, Missing}

\* print_stats.state as Klipper reports it, or not there at all.
UpstreamStates == {"standby", "printing", "paused", "complete", "cancelled", "error",
                   "missing"}

\* What the query of Moonraker yields: no usable reply (get_json returned
\* None), a reply without "result", or a reply with the print_stats object.
NoPrintStats == [state |-> "missing", total_duration |-> Missing, print_duration |-> Missing]
StatusReplies ==
    [reply : {"result"},
     print_stats : [state : UpstreamStates, total_duration : Durations,
                    print_duration : Durations]]
    \cup [reply : {"none", "noresult"}, print_stats : {NoPrintStats}]

\* dict.get(key, default) on a member of print_stats.
Get(member, default) == IF member.kind = "missing" THEN Number(default) ELSE member

\* Mutant of state_map: the upstream state "complete" is passed on.
state_map_PassesComplete(job_state) ==
    CASE job_state = "standby" -> "idle"
      [] job_state = "printing" -> "printing"
      [] job_state = "paused" -> "paused"
      [] job_state = "error" -> "error"
      [] job_state = "complete" -> "complete"
      [] OTHER -> "unknown"

\* Lines 265-276: print_stats.get("state", "unknown"), then
\* state_map.get(job_state, "unknown").
state_map(job_state) ==
    CASE job_state = "standby" -> "idle"
      [] job_state = "printing" -> "printing"
      [] job_state = "paused" -> "paused"
      [] job_state = "error" -> "error"
      [] OTHER -> "unknown"

\* A percentage as the exact fraction num / den, den > 0.
Fraction(n, d) == [num |-> n, den |-> d]

\* Lines 278-282 and 286: progress = 0.0; if total_duration > 0: progress =
\* (print_duration / total_duration) * 100; the job holds min(progress, 100.0).
progress(print_duration, total_duration) ==
    IF total_duration > 0
    THEN IF print_duration * 100 > 100 * total_duration
         THEN Fraction(100, 1)
         ELSE Fraction(print_duration * 100, total_duration)
    ELSE Fraction(0, 1)

\* get_status returned None.
NoSnapshot == [ok |-> FALSE, state |-> "none", progress |-> Fraction(0, 1)]

\* Lines 248-309: None when the reply is unusable or lacks "result", and
\* when the mapping raises (a null duration: `None > 0` and int(None) raise
\* TypeError, which line 307 catches); the snapshot otherwise.
get_status_of(response) ==
    LET print_stats == response.print_stats
        job_state == IF print_stats.state = "missing" THEN "unknown" ELSE print_stats.state
        total_duration == Get(print_stats.total_duration, 0)
        print_duration == Get(print_stats.print_duration, 0)
    IN  IF response.reply # "result" THEN NoSnapshot
        ELSE IF total_duration.kind = "null" \/ print_duration.kind = "null" THEN NoSnapshot
        ELSE [ok |-> TRUE,
              state |-> state_map(job_state),
              progress |-> progress(print_duration.v, total_duration.v)]

\* ---- FirebaseRealtimeDatabaseClient (src/src/firebase_rtdb_client.py)

\* What the store answers to one request of the client:
\*   "dict"     2xx, body a JSON object
\*   "other"    2xx, body a JSON value that is neither an object nor null
\*   "null"     2xx, body the JSON null (a read of an empty or missing path,
\*              an accepted DELETE)
\*   "empty"    2xx, empty body
\*   "http401", "http404", "httperr"  HTTPError
\*   "neterr"   URLError / OSError
\*   "badjson"  a body that json.loads rejects
FbAccepted == {"dict", "other", "null", "empty"}
FbFailed == {"http401", "http404", "httperr", "neterr", "badjson"}
FbReplies == FbAccepted \cup FbFailed

\* _make_request (lines 37-85): the parsed body, None for an empty body and
\* for every error.  json.loads of the body null is None as well.
make_request(reply) ==
    CASE reply = "dict" -> "dict"
      [] reply = "other" -> "other"
      [] OTHER -> "None"

\* The statuses update_printer_status is called with: each stands for one
\* value of (state, temperatures, job, system_health).
Statuses == {"idle", "printing"}

\* self.last_status after __init__ (line 35): {}.
EmptyStatus == [status |-> "none", lastHeartbeat |-> -1]

\* Lines 107-113: the record that is compared and written; it holds the
\* time of the call, int(time.time() * 1000).
current_status(status, time) == [status |-> status, lastHeartbeat |-> time]

\* Mutant of update_printer_status: the status is cached before the PATCH
\* is sent, whatever becomes of the request.
update_printer_status_CachesFirst(last_status, status, time, reply) ==
    LET current == current_status(status, time)
    IN  IF current = last_status
        THEN [ret |-> "True", sent |-> 0, last_status |-> last_status]
        ELSE IF make_request(reply) # "None"
             THEN [ret |-> "True", sent |-> 1, last_status |-> current]
             ELSE [ret |-> "False", sent |-> 1, last_status |-> current]

\* update_printer_status (lines 87-127): the value returned, the number of
\* PATCH requests issued, and self.last_status afterwards.
update_printer_status_of(last_status, status, time, reply) ==
    LET current == current_status(status, time)
    IN  IF current = last_status
        THEN [ret |-> "True", sent |-> 0, last_status |-> last_status]
        ELSE IF make_request(reply) # "None"
             THEN [ret |-> "True", sent |-> 1, last_status |-> current]
             ELSE [ret |-> "False", sent |-> 1, last_status |-> last_status]

\* get_queued_commands (lines 129-150): None when _make_request returned
\* None (the second test of None, line 143, is never reached), the mapping
\* when the body is an object, {} for any other body.
get_queued_commands_of(reply) ==
    LET body == make_request(reply)
    IN  IF body = "None" THEN "None"
        ELSE IF body = "dict" THEN "dict"
        ELSE "{}"

\* dequeue_command (lines 152-169): True when _make_request returned a
\* value, False when it returned None.
dequeue_command_of(reply) == IF make_request(reply) # "None" THEN "True" ELSE "False"

\* ---- the idle values of the objects examined on their own
\* Before get_status is called.
NoStatusCall == [called |-> FALSE, response |-> [reply |-> "none", print_stats |-> NoPrintStats],
                 snapshot |-> NoSnapshot]
\* The store client after __init__ (lines 23-35), at time 0 of its clock
\* (milliseconds), no call made yet.
NoClient == [last_status |-> EmptyStatus, time |-> 0, op |-> "none", status |-> "none",
             reply |-> "none", ret |-> "none", sent |-> 0]

UnitsIdle ==
    /\ route = NoRoute
    /\ moonraker = NoStatusCall
    /\ fb = NoClient

\* ---------------------------------------------------------------- actions

MaxClock == StartClock + MaxElapsed

\* ---- the store's clients and the operator

\* A client of the store places a command under a request id not in the queue.
Enqueue ==
    \E r \in RequestIds, k \in EntryKinds :
        /\ queue[r] = "absent"
        /\ queue' = [queue EXCEPT ![r] = k]
        /\ UNCHANGED <<responses, cpc, commands, idx, result, processed_count, log,
                       http, clock, runvars, seen401, last_poll, hist, horizon, unitvars>>

\* The same, in the specification of the whole agent: the agent sees the
\* queue in read_commands only, so a client's write takes effect at the same
\* read wherever in the tick it lands; it is taken while the agent sleeps.
enqueue_between_ticks ==
    /\ pc = "sleep"
    /\ Enqueue

\* SIGTERM / SIGINT: signal_handler sets the shutdown event (lines 492-494).
signal_handler ==
    /\ ~shutdown
    /\ pc # "stopped"
    /\ shutdown' = TRUE
    /\ UNCHANGED <<cmdvars, http, clock, pc, now, last_heartbeat, last_telemetry,
                   token_expires_at, config, rtdb_token, seen401, last_poll, hist, horizon, unitvars>>

\* ---- process_pending_commands

\* Lines 601-603: read_commands (get_json with max_retries=2) and the loop's
\* start.  read_commands returns the subtree when the GET yields a non-empty
\* JSON object and {} otherwise (an empty or missing subtree, a failed request).
read_commands ==
    /\ cpc = "read"
    /\ \E st \in ReadResults(StoreBody(queue)) :
        LET cmds == IF st.ret = "dict" THEN Snapshot(queue) ELSE <<>>
        IN  /\ commands' = cmds
            /\ idx' = 1
            /\ cpc' = NextCall(cmds, 1)
            /\ seen401' = (seen401 \/ Saw401(st))
    /\ processed_count' = 0
    /\ result' = NoResult
    /\ log' = <<>>
    /\ UNCHANGED <<queue, responses, http, clock, runvars, last_poll, hist, horizon, unitvars>>

\* Lines 618-621: the device call for the current entry, then the test of the
\* result up to the call of write_response.  The log keeps whether the POST
\* went through (ok) or ended in the except branch of the proxy.
device_call ==
    /\ cpc = "device"
    /\ \E o \in DeviceOutcomes :
        LET r == proxy_command_to_moonraker(o)
        IN  /\ result' = r
            /\ cpc' = IF ResultRaises(r) THEN "delete" ELSE "write"
            /\ log' = Append(log, Event("device", commands[idx].request_id, "none", o # "fail"))
    /\ UNCHANGED <<queue, responses, commands, idx, processed_count, http, clock,
                   runvars, seen401, last_poll, hist, horizon, unitvars>>

\* Mutant of write_response: the PUT goes to the RESPONSE subtree itself and
\* replaces all of it by the one result.
write_response_PutsSubtree ==
    /\ cpc = "write"
    /\ \E o \in StoreOutcomes :
        LET rid == commands[idx].request_id
            st  == ResponseStatus(result)
        IN  /\ responses' = IF o = "ok"
                            THEN [r \in RequestIds |-> IF r = rid THEN st ELSE "none"]
                            ELSE responses
            /\ log' = Append(log, Event("write", rid, st, o = "ok"))
            /\ seen401' = (seen401 \/ o = "http401")
    /\ cpc' = "delete"
    /\ UNCHANGED <<queue, commands, idx, result, processed_count, http, clock,
                   runvars, last_poll, hist, horizon, unitvars>>

\* Lines 623-636: write_response (one PUT); its return value is not looked at.
write_response ==
    /\ cpc = "write"
    /\ \E o \in StoreOutcomes :
        LET rid == commands[idx].request_id
            st  == ResponseStatus(result)
        IN  /\ responses' = IF o = "ok" THEN [responses EXCEPT ![rid] = st] ELSE responses
            /\ log' = Append(log, Event("write", rid, st, o = "ok"))
            /\ seen401' = (seen401 \/ o = "http401")
    /\ cpc' = "delete"
    /\ UNCHANGED <<queue, commands, idx, result, processed_count, http, clock,
                   runvars, last_poll, hist, horizon, unitvars>>

\* Whether the entry at the loop index went through lines 618-640 without an
\* exception (so that line 640 counts it).
Processed(cmds, i, r) == cmds[i].kind = "cmd" /\ ~ResultRaises(r)

\* Mutant of delete_command: the loop goes on to the next entry without
\* waiting for the DELETE of the current one, which is left for later.
delete_command_Deferred ==
    /\ cpc = "delete"
    /\ processed_count' = IF Processed(commands, idx, result)
                          THEN processed_count + 1 ELSE processed_count
    /\ idx' = idx + 1
    /\ cpc' = NextCall(commands, idx + 1)
    /\ result' = NoResult
    /\ UNCHANGED <<queue, log, seen401, responses, commands, http, clock, runvars,
                   last_poll, hist, horizon, unitvars>>

\* Mutant of delete_command: when the DELETE fails the loop takes the same
\* entry again.
delete_command_RetriesEntry ==
    /\ cpc = "delete"
    /\ \E o \in StoreOutcomes :
        LET rid == commands[idx].request_id
        IN  /\ queue' = IF o = "ok" THEN [queue EXCEPT ![rid] = "absent"] ELSE queue
            /\ log' = Append(log, Event("delete", rid, "none", o = "ok"))
            /\ seen401' = (seen401 \/ o = "http401")
            /\ idx' = IF o = "ok" \/ Len(log) >= 3 * Len(commands) THEN idx + 1 ELSE idx
            /\ cpc' = NextCall(commands, idx')
    /\ processed_count' = IF Processed(commands, idx, result)
                          THEN processed_count + 1 ELSE processed_count
    /\ result' = NoResult
    /\ UNCHANGED <<responses, commands, http, clock, runvars, last_poll, hist, horizon, unitvars>>

\* delete_command (one DELETE) at line 639 (after the write), line 615 (no
\* command) or line 645 (the except branch), then the step to the next entry.
delete_command ==
    /\ cpc = "delete"
    /\ \E o \in StoreOutcomes :
        LET rid == commands[idx].request_id
        IN  /\ queue' = IF o = "ok" THEN [queue EXCEPT ![rid] = "absent"] ELSE queue
            /\ log' = Append(log, Event("delete", rid, "none", o = "ok"))
            /\ seen401' = (seen401 \/ o = "http401")
    /\ processed_count' = IF Processed(commands, idx, result)
                          THEN processed_count + 1 ELSE processed_count
    /\ idx' = idx + 1
    /\ cpc' = NextCall(commands, idx + 1)
    /\ result' = NoResult
    /\ UNCHANGED <<responses, commands, http, clock, runvars, last_poll, hist, horizon, unitvars>>

\* run(), lines 723-728, seen from process_pending_commands alone: the next
\* tick calls process_pending_commands again.
poll_again ==
    /\ cpc = "done"
    /\ pc = "commands_in"
    /\ cpc' = "read"
    /\ commands' = <<>>
    /\ idx' = 1
    /\ result' = NoResult
    /\ processed_count' = 0
    /\ log' = <<>>
    /\ UNCHANGED <<queue, responses, http, clock, runvars, seen401, last_poll, hist, horizon, unitvars>>

\* ---- the transport on its own

\* A caller starts post_json or get_json with some max_retries.
http_request ==
    /\ http.fn = "none"
    /\ \E fn \in {"post_json", "get_json"}, m \in 0..MaxRetries :
        http' = HttpStart(fn, m)
    /\ UNCHANGED <<cmdvars, clock, runvars, seen401, last_poll, hist, horizon, unitvars>>

\* One attempt of the loop of post_json / get_json.
http_attempt ==
    /\ http.fn # "none"
    /\ ~http.done
    /\ \E o \in HttpOutcomes : http' = HttpStep(http, o)
    /\ UNCHANGED <<cmdvars, clock, runvars, seen401, last_poll, hist, horizon, unitvars>>

\* The function returns and the caller goes on.
http_return ==
    /\ http.fn # "none"
    /\ http.done
    /\ http' = HttpIdle
    /\ UNCHANGED <<cmdvars, clock, runvars, seen401, last_poll, hist, horizon, unitvars>>

\* ---- run()

\* Every way a call of post_json / get_json with the default max_retries can
\* go: the loop's final state for each sequence of replies.
PostJsonResults ==
    {HttpRun(HttpStart("post_json", DefaultMaxRetries), outs) :
        outs \in [1..DefaultMaxRetries -> HttpOutcomes]}

GetJsonResults ==
    {HttpRun(HttpStart("get_json", DefaultMaxRetries), outs) :
        outs \in [1..DefaultMaxRetries -> HttpOutcomes]}

\* Mutant of loop_top: the loop does not test the shutdown event (while True).
loop_top_NoShutdownTest ==
    /\ pc = "top"
    /\ pc' = "refresh"
    /\ now' = clock
    /\ UNCHANGED <<cmdvars, http, clock, last_heartbeat, last_telemetry,
                   token_expires_at, shutdown, config, rtdb_token, seen401, last_poll,
                   hist, horizon, unitvars>>

\* Line 687-690: the test of the shutdown event and the tick's clock reading.
loop_top ==
    /\ pc = "top"
    /\ IF shutdown
       THEN pc' = "stopped" /\ now' = now
       ELSE pc' = "refresh" /\ now' = clock
    /\ UNCHANGED <<cmdvars, http, clock, last_heartbeat, last_telemetry,
                   token_expires_at, shutdown, config, rtdb_token, seen401, last_poll, hist, horizon, unitvars>>

\* Mutant of should_refresh_token: `>=` in place of `>`.
should_refresh_token_AtMargin ==
    token_expires_at > 0 /\ clock >= token_expires_at - RefreshMargin

\* should_refresh_token, lines 499-503.
should_refresh_token ==
    token_expires_at > 0 /\ clock > token_expires_at - RefreshMargin

\* What the refresh endpoint may put in a JSON object reply: a token or none,
\* and under "expiresAt" a number (milliseconds), nothing, or a value that is
\* not a number (null, a date string), on which `/ 1000.0` raises TypeError.
RefreshReplies == [token : BOOLEAN, expiresAt : {"number", "absent", "other"}]

NoRefresh == [n |-> 0, ret |-> "none", at |-> -1]

\* Mutant of refresh_firebase_token: the store client is not handed the new
\* token (lines 527-529 are missing).
refresh_StoreKeepsToken(st, reply) ==
    LET got == st.ret = "dict" /\ reply.token
    IN  [ret     |-> IF got /\ reply.expiresAt # "other" THEN "True" ELSE "False",
         token   |-> IF got THEN config.firebase_token + 1 ELSE config.firebase_token,
         expires |-> IF got /\ reply.expiresAt = "number" THEN clock + TokenTTL
                     ELSE IF got /\ reply.expiresAt = "absent" THEN 0
                     ELSE token_expires_at,
         store   |-> rtdb_token]

\* Mutant of refresh_firebase_token: the expiry is not replaced (line 525 is
\* missing).
refresh_KeepsExpiry(st, reply) ==
    LET got == st.ret = "dict" /\ reply.token
    IN  [ret     |-> IF got THEN "True" ELSE "False",
         token   |-> IF got THEN config.firebase_token + 1 ELSE config.firebase_token,
         expires |-> token_expires_at,
         store   |-> IF got /\ rtdb_token # 0 THEN config.firebase_token + 1
                     ELSE rtdb_token]

\* refresh_firebase_token, lines 520-536, once it is past the test of line 510,
\* on the outcome st of post_json and the reply's content: the value it
\* returns and the token, expiry and store token it leaves.  The token is
\* replaced (line 524) before expiresAt is converted (line 525); an exception
\* there is caught at line 533 with the expiry and the store's token as they were.
refresh_firebase_token(st, reply) ==
    LET got   == st.ret = "dict" /\ reply.token
        whole == got /\ reply.expiresAt # "other"
    IN  [ret     |-> IF whole THEN "True" ELSE "False",
         token   |-> IF got THEN config.firebase_token + 1 ELSE config.firebase_token,
         expires |-> IF whole /\ reply.expiresAt = "number" THEN clock + TokenTTL
                     ELSE IF whole THEN 0
                     ELSE token_expires_at,
         store   |-> IF whole /\ rtdb_token # 0 THEN config.firebase_token + 1
                     ELSE rtdb_token]

\* Lines 692-698: the refresh step of a tick.  refresh_firebase_token is
\* called when should_refresh_token holds; it returns False without a request
\* when no user id or no Firebase token is configured (line 510).
token_refresh ==
    /\ pc = "refresh"
    /\ pc' = "heartbeat"
    /\ IF should_refresh_token
       THEN IF config.user_id /\ config.firebase_token # 0
            THEN \E st \in PostJsonResults, reply \in RefreshReplies :
                    LET r == refresh_firebase_token(st, reply)
                    IN  /\ config' = [config EXCEPT !.firebase_token = r.token]
                        /\ token_expires_at' = r.expires
                        /\ rtdb_token' = r.store
                        /\ seen401' = (seen401 \/ Saw401(st))
                        /\ hist' = [hist EXCEPT !.refresh =
                                       [n |-> @.n + 1, ret |-> r.ret, at |-> clock]]
            ELSE /\ hist' = [hist EXCEPT !.refresh =
                                [n |-> @.n + 1, ret |-> "False", at |-> clock]]
                 /\ UNCHANGED <<config, token_expires_at, rtdb_token, seen401>>
       ELSE UNCHANGED <<config, token_expires_at, rtdb_token, seen401, hist>>
    /\ UNCHANGED <<cmdvars, http, clock, now, last_heartbeat, last_telemetry, shutdown,
                   last_poll, horizon, unitvars>>

\* Lines 700-708: the relay heartbeat, when due.  An exception raised by
\* register_heartbeat leaves the tick for the handler at line 730.
heartbeat ==
    /\ pc = "heartbeat"
    /\ IF now - last_heartbeat >= config.heartbeat_interval
       THEN \E st \in PostJsonResults :
               LET rh == register_heartbeat(st.ret)
               IN  /\ pc' = IF rh = "raise" THEN "except"
                            ELSE IF rtdb_token # 0 THEN "heartbeat_rtdb" ELSE "telemetry"
                   /\ last_heartbeat' = IF rh # "raise" /\ rtdb_token = 0
                                        THEN now ELSE last_heartbeat
                   /\ seen401' = (seen401 \/ Saw401(st))
                   /\ hist' = [hist EXCEPT !.heartbeats = @ + 1]
       ELSE /\ pc' = "telemetry"
            /\ UNCHANGED <<last_heartbeat, seen401, hist>>
    /\ UNCHANGED <<cmdvars, http, clock, now, last_telemetry, token_expires_at, shutdown,
                   config, rtdb_token, last_poll, horizon, unitvars>>

\* Lines 710-714: FirebaseRTDB.update_heartbeat (one PATCH), then the timer.
update_heartbeat ==
    /\ pc = "heartbeat_rtdb"
    /\ \E o \in StoreOutcomes : seen401' = (seen401 \/ o = "http401")
    /\ last_heartbeat' = now
    /\ pc' = "telemetry"
    /\ UNCHANGED <<cmdvars, http, clock, now, last_telemetry, token_expires_at,
                   shutdown, config, rtdb_token, last_poll, hist, horizon, unitvars>>

\* Mutant of get_status: a failed query is raised to run() instead of
\* being answered with None.
get_status_Raises ==
    /\ pc = "telemetry"
    /\ IF now - last_telemetry >= config.telemetry_interval
       THEN \E st \in GetJsonResults, maps \in BOOLEAN :
               LET moonraker_status == IF st.ret = "dict" /\ maps THEN "snapshot" ELSE "None"
               IN  /\ pc' = IF moonraker_status = "None" THEN "except" ELSE "send_telemetry"
                   /\ UNCHANGED last_telemetry
       ELSE /\ pc' = "commands"
            /\ UNCHANGED last_telemetry
    /\ UNCHANGED <<cmdvars, http, clock, now, last_heartbeat, token_expires_at, shutdown,
                   config, rtdb_token, seen401, last_poll, hist, horizon, unitvars>>

\* Lines 716-719 and 721: MoonrakerClient.get_status, when telemetry is due.
\* It returns a snapshot when get_json yields a JSON object that holds
\* "result" and maps without an exception, and None otherwise.
get_status ==
    /\ pc = "telemetry"
    /\ IF now - last_telemetry >= config.telemetry_interval
       THEN \E st \in GetJsonResults, maps \in BOOLEAN :
               LET moonraker_status == IF st.ret = "dict" /\ maps THEN "snapshot" ELSE "None"
               IN  /\ pc' = IF moonraker_status = "None" THEN "commands" ELSE "send_telemetry"
                   /\ last_telemetry' = IF moonraker_status = "None" THEN now
                                        ELSE last_telemetry
       ELSE /\ pc' = "commands"
            /\ UNCHANGED last_telemetry
    /\ UNCHANGED <<cmdvars, http, clock, now, last_heartbeat, token_expires_at, shutdown,
                   config, rtdb_token, seen401, last_poll, hist, horizon, unitvars>>

\* Lines 720-721: RelayClient.send_telemetry, then the timer.
telemetry ==
    /\ pc = "send_telemetry"
    /\ \E st \in PostJsonResults : seen401' = (seen401 \/ Saw401(st))
    /\ hist' = [hist EXCEPT !.telemetry = @ + 1]
    /\ last_telemetry' = now
    /\ pc' = "commands"
    /\ UNCHANGED <<cmdvars, http, clock, now, last_heartbeat, token_expires_at, shutdown,
                   config, rtdb_token, last_poll, horizon, unitvars>>

\* Lines 723-725 and 598-599: process_pending_commands is entered in every
\* tick when self.rtdb is set.
process_pending_commands ==
    /\ pc = "commands"
    /\ IF rtdb_token # 0
       THEN pc' = "commands_in" /\ cpc' = "read" /\ last_poll' = clock
       ELSE pc' = "sleep" /\ cpc' = cpc /\ last_poll' = last_poll
    /\ UNCHANGED <<queue, responses, commands, idx, result, processed_count, log,
                   http, clock, now, last_heartbeat, last_telemetry, token_expires_at,
                   shutdown, config, rtdb_token, seen401, hist, horizon, unitvars>>

\* Lines 647-650: process_pending_commands returns to run(); its locals (and
\* the record of the cycle's calls) are gone.
commands_return ==
    /\ pc = "commands_in"
    /\ cpc = "done"
    /\ cpc' = "idle"
    /\ pc' = "sleep"
    /\ commands' = <<>>
    /\ idx' = 1
    /\ result' = NoResult
    /\ processed_count' = 0
    /\ log' = <<>>
    /\ UNCHANGED <<queue, responses, http, clock, now, last_heartbeat, last_telemetry,
                   token_expires_at, shutdown, config, rtdb_token, seen401, last_poll, hist, horizon, unitvars>>

\* Line 728: await asyncio.sleep(1).  The clock is read at the top of a tick
\* only, so the time the tick's calls and backoff waits took (d) is added here.
tick_sleep ==
    /\ pc = "sleep"
    /\ \E d \in 0..MaxCallTime :
        /\ clock + TickSleep + d <= horizon
        /\ clock' = clock + TickSleep + d
    /\ pc' = "top"
    /\ UNCHANGED <<cmdvars, http, now, last_heartbeat, last_telemetry,
                   token_expires_at, shutdown, config, rtdb_token, seen401, last_poll, hist, horizon, unitvars>>

\* Mutant of error_sleep: the try is outside the loop, an exception raised in a
\* tick ends run().
error_sleep_Exits ==
    /\ pc = "except"
    /\ pc' = "stopped"
    /\ UNCHANGED <<cmdvars, http, clock, now, last_heartbeat, last_telemetry,
                   token_expires_at, shutdown, config, rtdb_token, seen401, last_poll,
                   hist, horizon, unitvars>>

\* Lines 730-732: the handler of an exception raised inside the tick.
error_sleep ==
    /\ pc = "except"
    /\ \E d \in 0..MaxCallTime :
        /\ clock + ErrorSleep + d <= horizon
        /\ clock' = clock + ErrorSleep + d
    /\ pc' = "top"
    /\ UNCHANGED <<cmdvars, http, now, last_heartbeat, last_telemetry,
                   token_expires_at, shutdown, config, rtdb_token, seen401, last_poll, hist, horizon, unitvars>>

\* ---------------------------------------------------------- specifications

\* Config as loaded from the environment: with or without a user id and a
\* Firebase token (token 1 is the configured one, 0 stands for none).
Configs ==
    [heartbeat_interval : {HeartbeatInterval},
     telemetry_interval : {TelemetryInterval},
     user_id : BOOLEAN,
     firebase_token : {0, 1}]

\* ReachLinkAgent.__init__ (lines 470-488) and run() up to line 686.
InitAgent ==
    /\ config \in Configs
    /\ rtdb_token = config.firebase_token
    /\ clock = StartClock
    /\ now = StartClock
    /\ last_heartbeat = 0
    /\ last_telemetry = 0
    /\ token_expires_at = IF config.firebase_token # 0 THEN StartClock + TokenTTL ELSE 0
    /\ shutdown = FALSE
    /\ responses = [r \in RequestIds |-> "none"]
    /\ commands = <<>>
    /\ idx = 1
    /\ result = NoResult
    /\ processed_count = 0
    /\ log = <<>>
    /\ http = HttpIdle
    /\ seen401 = FALSE
    /\ last_poll = -1
    /\ hist = [heartbeats |-> 0, telemetry |-> 0, refresh |-> NoRefresh]
    /\ horizon = MaxClock
    /\ UnitsIdle

\* The agent from its start, with clients of the store and signals.
Init ==
    /\ InitAgent
    /\ queue = [r \in RequestIds |-> "absent"]
    /\ pc = "top"
    /\ cpc = "idle"

Next ==
    \/ enqueue_between_ticks
    \/ signal_handler
    \/ loop_top
    \/ token_refresh
    \/ heartbeat
    \/ update_heartbeat
    \/ get_status
    \/ telemetry
    \/ process_pending_commands
    \/ read_commands
    \/ device_call
    \/ write_response
    \/ delete_command
    \/ commands_return
    \/ tick_sleep
    \/ error_sleep

Spec == Init /\ [][Next]_vars

\* process_pending_commands alone, called tick after tick on any queue.
InitCmd ==
    /\ InitAgent
    /\ config.firebase_token # 0
    /\ config.user_id
    /\ queue \in [RequestIds -> EntryKinds \cup {"absent"}]
    /\ pc = "commands_in"
    /\ cpc = "read"

NextCmd ==
    \/ Enqueue
    \/ read_commands
    \/ device_call
    \/ write_response
    \/ delete_command
    \/ poll_again

SpecCmd == InitCmd /\ [][NextCmd]_vars

\* The steps of process_pending_commands and of the loop that calls it.
CmdStep ==
    \/ read_commands
    \/ device_call
    \/ write_response
    \/ delete_command
    \/ poll_again

\* The same with the loop never stopping (every call has a timeout) and
\* with calls that succeed in the end: a read that is attempted again and
\* again succeeds again and again, and so do, for every request id, the
\* device call, the result write and the delete.
SpecCmdFair ==
    /\ InitCmd
    /\ [][NextCmd]_vars
    /\ WF_vars(CmdStep)
    /\ SF_vars(read_commands /\ commands' = Snapshot(queue))
    /\ \A r \in RequestIds :
        /\ SF_vars(device_call /\ commands[idx].request_id = r
                      /\ result'.shape = "dict" /\ ~result'.has_error)
        /\ SF_vars(write_response /\ commands[idx].request_id = r /\ log'[Len(log')].ok)
        /\ SF_vars(delete_command /\ commands[idx].request_id = r /\ log'[Len(log')].ok)

\* One call of process_pending_commands on any queue, no client writing to
\* the queue while it runs.
NextCycle ==
    \/ read_commands
    \/ device_call
    \/ write_response
    \/ delete_command

SpecCycle == InitCmd /\ [][NextCycle]_vars

\* The transport alone: requests one after the other, every reply possible.
InitHttp ==
    /\ InitAgent
    /\ config.firebase_token # 0
    /\ config.user_id
    /\ queue = [r \in RequestIds |-> "absent"]
    /\ pc = "top"
    /\ cpc = "idle"

NextHttp ==
    \/ http_request
    \/ http_attempt
    \/ http_return

SpecHttp == InitHttp /\ [][NextHttp]_vars

\* The loop of run() from the agent's start with the default intervals, the
\* store configured and its queue empty, no signal, every call answered at
\* once and with success, for RunSeconds seconds.
InitSched ==
    /\ config = [heartbeat_interval |-> DefaultHeartbeatInterval,
                 telemetry_interval |-> DefaultTelemetryInterval,
                 user_id |-> TRUE, firebase_token |-> 1]
    /\ rtdb_token = config.firebase_token
    /\ clock = StartClock
    /\ now = StartClock
    /\ last_heartbeat = 0
    /\ last_telemetry = 0
    /\ token_expires_at = StartClock + TokenTTL
    /\ shutdown = FALSE
    /\ queue = [r \in RequestIds |-> "absent"]
    /\ responses = [r \in RequestIds |-> "none"]
    /\ commands = <<>>
    /\ idx = 1
    /\ result = NoResult
    /\ processed_count = 0
    /\ log = <<>>
    /\ http = HttpIdle
    /\ seen401 = FALSE
    /\ last_poll = -1
    /\ hist = [heartbeats |-> 0, telemetry |-> 0, refresh |-> NoRefresh]
    /\ horizon = StartClock + RunSeconds
    /\ UnitsIdle
    /\ pc = "top"
    /\ cpc = "idle"

\* The steps of the loop when every call succeeds at once: the heartbeat is
\* registered, Moonraker's status is a snapshot, no reply is a 401 and the
\* tick's calls take no time.
NextSched ==
    \/ loop_top
    \/ token_refresh
    \/ heartbeat /\ pc' # "except" /\ ~seen401'
    \/ update_heartbeat /\ ~seen401'
    \/ get_status /\ (now - last_telemetry >= config.telemetry_interval
                          => pc' = "send_telemetry")
    \/ telemetry /\ ~seen401'
    \/ process_pending_commands
    \/ read_commands /\ ~seen401'
    \/ commands_return
    \/ tick_sleep /\ clock' = clock + TickSleep

SpecSched == InitSched /\ [][NextSched]_vars

\* The loop of run() with no client writing to the queue, from the agent's
\* start or from a later tick, SecondsToMargin seconds before the refresh
\* margin of the token it started with.
InitLoop ==
    /\ config \in Configs
    /\ rtdb_token = config.firebase_token
    /\ clock = StartClock
    /\ now = StartClock
    /\ last_heartbeat = 0
    /\ last_telemetry = 0
    /\ token_expires_at \in
          IF config.firebase_token # 0
          THEN {StartClock + TokenTTL, StartClock + RefreshMargin + SecondsToMargin}
          ELSE {0}
    /\ shutdown = FALSE
    /\ queue = [r \in RequestIds |-> "absent"]
    /\ responses = [r \in RequestIds |-> "none"]
    /\ commands = <<>>
    /\ idx = 1
    /\ result = NoResult
    /\ processed_count = 0
    /\ log = <<>>
    /\ http = HttpIdle
    /\ seen401 = FALSE
    /\ last_poll = -1
    /\ hist = [heartbeats |-> 0, telemetry |-> 0, refresh |-> NoRefresh]
    /\ horizon = MaxClock
    /\ UnitsIdle
    /\ pc = "top"
    /\ cpc = "idle"

\* The statements of run() and of what it calls, in program order.
AgentStep ==
    \/ loop_top
    \/ token_refresh
    \/ heartbeat
    \/ update_heartbeat
    \/ get_status
    \/ telemetry
    \/ process_pending_commands
    \/ read_commands
    \/ commands_return
    \/ tick_sleep
    \/ error_sleep

NextLoop ==
    \/ signal_handler
    \/ AgentStep

SpecLoop == InitLoop /\ [][NextLoop]_vars

\* The same, with the agent never stopping between two statements: none of
\* its calls blocks for ever (each has a timeout) and the sleeps end.
SpecLoopFair == InitLoop /\ [][NextLoop]_vars /\ WF_vars(AgentStep)

\* ---- the objects examined on their own

\* The agent as constructed and not running, the store not configured.
AgentIdle ==
    /\ config = [heartbeat_interval |-> HeartbeatInterval,
                 telemetry_interval |-> TelemetryInterval,
                 user_id |-> FALSE, firebase_token |-> 0]
    /\ rtdb_token = 0
    /\ clock = StartClock
    /\ now = StartClock
    /\ last_heartbeat = 0
    /\ last_telemetry = 0
    /\ token_expires_at = 0
    /\ shutdown = FALSE
    /\ queue = [r \in RequestIds |-> "absent"]
    /\ responses = [r \in RequestIds |-> "none"]
    /\ commands = <<>>
    /\ idx = 1
    /\ result = NoResult
    /\ processed_count = 0
    /\ log = <<>>
    /\ http = HttpIdle
    /\ seen401 = FALSE
    /\ last_poll = -1
    /\ hist = [heartbeats |-> 0, telemetry |-> 0, refresh |-> NoRefresh]
    /\ horizon = StartClock
    /\ pc = "top"
    /\ cpc = "idle"

\* ---- the routing decision

\* Lines 551-565 for one command: the originator address of the entry
\* ("userIp") and config.printer_ip are the inputs.
route_command ==
    /\ route.target = NoAddress
    /\ route' = [route EXCEPT !.target = moonraker_base(route.user_ip, route.printer_ip)]
    /\ UNCHANGED <<cmdvars, http, clock, runvars, seen401, last_poll, hist, horizon,
                   moonraker, fb>>

\* proxy_command_to_moonraker about to route a command, for every originator
\* address and every configured printer address.
InitRoute ==
    /\ AgentIdle
    /\ route \in [user_ip : AddressInputs, printer_ip : AddressInputs, target : {NoAddress}]
    /\ moonraker = NoStatusCall
    /\ fb = NoClient

NextRoute == route_command

SpecRoute == InitRoute /\ [][NextRoute]_vars

\* ---- the snapshot of MoonrakerClient.get_status

\* MoonrakerClient.get_status (lines 234-309) for one reply of Moonraker.
\* (The query at lines 241-247 does not ask for print_stats.state; the
\* reply is an input here whatever Moonraker puts into it.)
get_status_call ==
    /\ ~moonraker.called
    /\ moonraker' = [moonraker EXCEPT !.called = TRUE,
                                      !.snapshot = get_status_of(moonraker.response)]
    /\ UNCHANGED <<cmdvars, http, clock, runvars, seen401, last_poll, hist, horizon,
                   route, fb>>

\* get_status about to be called, for every reply of Moonraker.
InitStatus ==
    /\ AgentIdle
    /\ moonraker \in [called : {FALSE}, response : StatusReplies, snapshot : {NoSnapshot}]
    /\ route = NoRoute
    /\ fb = NoClient

NextStatus == get_status_call

SpecStatus == InitStatus /\ [][NextStatus]_vars

\* ---- the store client of firebase_rtdb_client.py

\* Time passes between two calls of the client.
fb_time_passes ==
    /\ fb.time < MaxMillis
    /\ fb' = [fb EXCEPT !.time = @ + 1]
    /\ UNCHANGED <<cmdvars, http, clock, runvars, seen401, last_poll, hist, horizon,
                   route, moonraker>>

\* update_printer_status (lines 87-127), called with any status.
update_printer_status ==
    /\ \E status \in Statuses, reply \in FbReplies :
        LET r == update_printer_status_of(fb.last_status, status, fb.time, reply)
        IN  fb' = [fb EXCEPT !.op = "update_printer_status",
                             !.status = status,
                             !.reply = IF r.sent = 0 THEN "none" ELSE reply,
                             !.ret = r.ret,
                             !.sent = r.sent,
                             !.last_status = r.last_status]
    /\ UNCHANGED <<cmdvars, http, clock, runvars, seen401, last_poll, hist, horizon,
                   route, moonraker>>

\* get_queued_commands (lines 129-150): one GET of the queue subtree.
get_queued_commands ==
    /\ \E reply \in FbReplies :
        fb' = [fb EXCEPT !.op = "get_queued_commands",
                         !.status = "none",
                         !.reply = reply,
                         !.ret = get_queued_commands_of(reply),
                         !.sent = 1]
    /\ UNCHANGED <<cmdvars, http, clock, runvars, seen401, last_poll, hist, horizon,
                   route, moonraker>>

\* dequeue_command (lines 152-169): one DELETE of a queue entry.
dequeue_command ==
    /\ \E reply \in FbReplies :
        fb' = [fb EXCEPT !.op = "dequeue_command",
                         !.status = "none",
                         !.reply = reply,
                         !.ret = dequeue_command_of(reply),
                         !.sent = 1]
    /\ UNCHANGED <<cmdvars, http, clock, runvars, seen401, last_poll, hist, horizon,
                   route, moonraker>>

\* A FirebaseRealtimeDatabaseClient as constructed, called by its owner.
InitFb ==
    /\ AgentIdle
    /\ fb = NoClient
    /\ route = NoRoute
    /\ moonraker = NoStatusCall

NextFb ==
    \/ fb_time_passes
    \/ update_printer_status
    \/ get_queued_commands
    \/ dequeue_command

SpecFb == InitFb /\ [][NextFb]_vars

\* The loop of run() with the store and the user id configured, one command
\* waiting in the queue and no client writing to it, from a tick shortly
\* before the refresh margin of the token.
InitLoopQueue ==
    /\ config = [heartbeat_interval |-> HeartbeatInterval,
                 telemetry_interval |-> TelemetryInterval,
                 user_id |-> TRUE, firebase_token |-> 1]
    /\ rtdb_token = config.firebase_token
    /\ clock = StartClock
    /\ now = StartClock
    /\ last_heartbeat = 0
    /\ last_telemetry = 0
    /\ token_expires_at = StartClock + RefreshMargin + SecondsToMargin
    /\ shutdown = FALSE
    /\ queue = [r \in RequestIds |-> IF r = 1 THEN "cmd" ELSE "absent"]
    /\ responses = [r \in RequestIds |-> "none"]
    /\ commands = <<>>
    /\ idx = 1
    /\ result = NoResult
    /\ processed_count = 0
    /\ log = <<>>
    /\ http = HttpIdle
    /\ seen401 = FALSE
    /\ last_poll = -1
    /\ hist = [heartbeats |-> 0, telemetry |-> 0, refresh |-> NoRefresh]
    /\ horizon = MaxClock
    /\ UnitsIdle
    /\ pc = "top"
    /\ cpc = "idle"

NextLoopQueue ==
    \/ AgentStep
    \/ device_call
    \/ write_response
    \/ delete_command

SpecLoopQueue == InitLoopQueue /\ [][NextLoopQueue]_vars

\* ------------------------------------------------------------------ claims

\* Positions of the log that hold a call `op` for request id `rid`.
Calls(op, rid) == {i \in 1..Len(log) : log[i].op = op /\ log[i].rid = rid}

\* Positions of the log that hold a call `op`.
CallsOf(op) == {i \in 1..Len(log) : log[i].op = op}

\* The entries the read returned that carry a non-empty command, and the rest.
WithCommand == {i \in 1..Len(commands) : commands[i].kind = "cmd"}
WithoutCommand == {i \in 1..Len(commands) : commands[i].kind # "cmd"}

\* The loop has finished with entry i of the read.
Finished(i) == cpc = "done" \/ i < idx

\* C1 (as claimed): within a cycle, a delete of a request id that carries a
\* command is issued only after a result write for the same request id.
C1_DeleteAfterWrite ==
    \A i \in WithCommand :
        \A d \in Calls("delete", commands[i].request_id) :
            \E w \in Calls("write", commands[i].request_id) : w < d

\* C2 (as claimed): when the result write of a request id fails, no delete is
\* issued for it in that cycle.
C2_NoDeleteAfterFailedWrite ==
    \A i \in WithCommand :
        \A w \in Calls("write", commands[i].request_id) :
            ~log[w].ok => Calls("delete", commands[i].request_id) = {}

\* C3 (as claimed): a cycle makes at most one device call and writes at most
\* one result, however many commands the read returned.
C3_AtMostOneCommandPerCycle ==
    /\ Cardinality(CallsOf("device")) <= 1
    /\ Cardinality(CallsOf("write")) <= 1

\* C3 (amended): a cycle walks through every entry the read returned, each
\* once: per returned command at most one device call and at most one result
\* write, exactly one device call once the loop is past it, and none for a
\* request id the read did not return.
C3_OncePerReturnedCommand ==
    /\ \A i \in WithCommand :
        /\ Cardinality(Calls("device", commands[i].request_id)) <= 1
        /\ Cardinality(Calls("write", commands[i].request_id)) <= 1
        /\ Finished(i) => Cardinality(Calls("device", commands[i].request_id)) = 1
    /\ Cardinality(CallsOf("device")) <= Len(commands)
    /\ Cardinality(CallsOf("write")) <= Cardinality(CallsOf("device"))
    /\ \A j \in 1..Len(log) :
        \E i \in 1..Len(commands) : commands[i].request_id = log[j].rid

\* C3 witness: a finished cycle over two commands, both proxied and answered.
C3_Witness ==
    /\ cpc = "done"
    /\ Cardinality(WithCommand) = 2
    /\ Cardinality(CallsOf("device")) = 2
    /\ Cardinality(CallsOf("write")) = 2

\* C10: an entry without a command is never proxied to the device and gets no
\* result write, and once the loop is past it exactly one delete has been
\* issued for it, in the cycle that read it.
C10_NoCommandDeletedUnexecuted ==
    \A i \in WithoutCommand :
        /\ Calls("device", commands[i].request_id) = {}
        /\ Calls("write", commands[i].request_id) = {}
        /\ Finished(i) => Cardinality(Calls("delete", commands[i].request_id)) = 1

\* C10 witness: a finished cycle that read an entry with a missing command
\* and whose delete of it the store accepted.
C10_Witness ==
    /\ cpc = "done"
    /\ \E i \in 1..Len(commands) :
        /\ commands[i].kind = "nocmd"
        /\ \E d \in Calls("delete", commands[i].request_id) : log[d].ok
        /\ queue[commands[i].request_id] = "absent"

\* A step of the agent that issues a call to the relay or to the store.
OutboundCall ==
    \/ cpc \in {"read", "write", "delete"} /\ <<cpc, idx>>' # <<cpc, idx>>
    \/ /\ pc = "refresh" /\ pc' # pc
       /\ should_refresh_token /\ config.user_id /\ config.firebase_token # 0
    \/ /\ pc = "heartbeat" /\ pc' # pc
       /\ now - last_heartbeat >= config.heartbeat_interval
    \/ pc = "heartbeat_rtdb" /\ pc' # pc
    \/ pc = "send_telemetry" /\ pc' # pc

\* C4 (as claimed): a poll cycle starts only when at least
\* commandPollIntervalSeconds have passed since the previous one started.
C4_PollInterval ==
    [][(pc = "commands" /\ pc' = "commands_in" /\ last_poll >= 0)
          => clock - last_poll >= commandPollIntervalSeconds]_vars

\* C6 (as claimed): once a relay or store call has been answered 401, no
\* further relay or store call is issued.
C6_RevokedIsTerminal == [][seen401 => ~OutboundCall]_vars

\* Index of the first attempt answered 401 (0 if none).
First401(st) ==
    IF Saw401(st) THEN CHOOSE i \in 1..Len(st.outs) :
                          /\ st.outs[i] = "http401"
                          /\ \A j \in 1..(i - 1) : st.outs[j] # "http401"
    ELSE 0

\* C5 (as claimed): a 401 ends the retry loop at once, no attempt follows it
\* (one attempt in all when the first reply is the 401), and the call's
\* outcome is CredentialRevoked.
C5_UnauthorizedShortCircuits ==
    Saw401(http) =>
        /\ http.done
        /\ Len(http.outs) = First401(http)
        /\ http.ret = "CredentialRevoked"

\* The attempts made so far that failed with a non-401 HTTP error or a
\* transport-level error.
PlainFailures(st) == {k \in 1..Len(st.outs) : st.outs[k] \in {"httperr", "neterr"}}

\* The value a 2xx reply makes the call return: the parsed body, nothing for
\* a null or empty one.
Payload(o) == IF o \in {"null", "empty"} THEN "None" ELSE o

\* C7: a request makes at most max_retries attempts; when max_retries
\* attempts have all failed with an HTTP error or a transport error the call
\* is over and returns None; a 2xx reply is the last attempt and its payload
\* is what the call returns; and the loop goes on only after a failure.
C7_BoundedRetries ==
    http.fn # "none" =>
        /\ Len(http.outs) <= http.max_retries
        /\ (http.done /\ http.max_retries > 0
               /\ Cardinality(PlainFailures(http)) = Len(http.outs))
              => (Len(http.outs) = http.max_retries /\ http.ret = "None")
        /\ \A k \in 1..Len(http.outs) :
              http.outs[k] \in SuccessOutcomes
                  => (k = Len(http.outs) /\ http.done /\ http.ret = Payload(http.outs[k]))
        /\ (~http.done) => \A k \in 1..Len(http.outs) : http.outs[k] \in RetryOutcomes

\* C7 witness: a request with the default max_retries whose three attempts
\* all failed, with an HTTP error and with transport errors.
C7_Witness ==
    /\ http.done
    /\ http.max_retries = DefaultMaxRetries
    /\ http.outs = <<"neterr", "httperr", "neterr">>
    /\ http.ret = "None"

\* The attempts made so far that ended in the retry branch.
Retried(st) == {k \in 1..Len(st.outs) : st.outs[k] \in RetryOutcomes}

\* C8: the i-th wait of a request (i from 0) is 2^i seconds, one wait follows
\* every failed attempt that is not the last allowed one, and none follows
\* the last allowed attempt.
C8_ExponentialBackoff ==
    http.fn # "none" =>
        /\ \A i \in 1..Len(http.waits) : http.waits[i] = 2 ^ (i - 1)
        /\ Len(http.waits) =
              IF http.max_retries > 0 /\ Cardinality(Retried(http)) = http.max_retries
              THEN http.max_retries - 1
              ELSE Cardinality(Retried(http))

\* C8 witness: four failed attempts out of four, with waits of 1, 2 and 4
\* seconds and none after the fourth.
C8_Witness ==
    /\ http.done
    /\ http.max_retries = 4
    /\ Cardinality(Retried(http)) = 4
    /\ http.waits = <<1, 2, 4>>

\* C9 (as claimed): register_heartbeat reports success on a 2xx reply with an
\* empty body, and reports failure only when the request failed.
C9_EmptyBodyIsSuccess ==
    (http.fn = "post_json" /\ http.done /\ Len(http.outs) > 0) =>
        LET last == http.outs[Len(http.outs)]
        IN  /\ last = "empty" => register_heartbeat(http.ret) = "True"
            /\ register_heartbeat(http.ret) = "False" => last \notin SuccessOutcomes

\* The entry the loop is at carries a command and its device call has been made.
AtProxied == cpc \in {"write", "delete"} /\ commands[idx].kind = "cmd"

\* The device call of the entry the loop is at ended in the proxy's except
\* branch (network error, non-2xx status, unparseable body).
ProxyFailed ==
    \E d \in Calls("device", commands[idx].request_id) : ~log[d].ok

\* C11 (as claimed): every failure of the device call comes back as
\* {error, errorCode} with errorCode = device_error.
C11_DeviceErrorCode ==
    (AtProxied /\ ProxyFailed) =>
        /\ result.shape = "dict" /\ result.has_error
        /\ result.errorCode = "device_error"

\* C11 (amended): the proxy never raises to process_pending_commands: every
\* failure of the device call comes back as a JSON object {error, errorCode}
\* with errorCode = moonraker_error, and the caller goes on to write it as an
\* error result with that errorCode.
C11_FailureIsReturned ==
    (AtProxied /\ ProxyFailed) =>
        /\ result.shape = "dict" /\ result.has_error
        /\ result.errorCode = "moonraker_error"
        /\ ~ResultRaises(result)
        /\ ResponseStatus(result) = "error"
        /\ ResponseErrorCode(result) = "moonraker_error"
        /\ cpc = "write" \/ Calls("write", commands[idx].request_id) # {}

\* C11 witness: a device call has failed and its error result is about to be
\* written.
C11_Witness ==
    /\ AtProxied /\ ProxyFailed
    /\ cpc = "write"
    /\ result.errorCode = "moonraker_error"

\* The device call of the entry the loop is at failed: it ended in the
\* proxy's except branch, or its response was not a JSON object.
DeviceFailed == ProxyFailed \/ result.shape # "dict"

\* C12 (as claimed): before a command whose device call failed is deleted, a
\* result write with the failure status has been issued for its request id,
\* whatever the shape of the failure.
C12_FailedCommandStillAnswered ==
    (cpc = "delete" /\ commands[idx].kind = "cmd" /\ DeviceFailed) =>
        \E w \in Calls("write", commands[idx].request_id) : log[w].status = "error"

RunOver == clock = horizon /\ pc = "sleep"

\* C14 (as claimed): with the intervals 60 s, 10 s and 4 s, a run of 65
\* seconds in which every call succeeds at once makes exactly one heartbeat
\* and exactly six telemetry pushes, and starts a poll cycle exactly every
\* commandPollIntervalSeconds.
C14_SchedulerScenario ==
    /\ [](RunOver => (hist.heartbeats = 1 /\ hist.telemetry = 6))
    /\ [][(pc = "commands" /\ pc' = "commands_in" /\ last_poll >= 0)
             => clock - last_poll = commandPollIntervalSeconds]_vars

\* A step in which run() calls refresh_firebase_token.
RefreshRuns == hist.refresh.n' = hist.refresh.n + 1

\* A step that takes the tick through its refresh stage.
RefreshStage == pc = "refresh" /\ pc' = "heartbeat"

\* C15 (as claimed): the refresh is triggered once when the clock crosses
\* expiresAt - 600, and not again before a successful refresh has set a new
\* expiry: no trigger follows a trigger that failed.
C15_RefreshTriggersOnce ==
    [][RefreshRuns => hist.refresh.ret # "False"]_vars

\* C15 (amended): the refresh is triggered at most once per tick; after a
\* refresh that failed it is triggered again in the next tick; a refresh that
\* succeeds sets a new expiry, and after it the refresh is not triggered
\* while the clock is not past the margin of that expiry.
C15_RefreshEveryTickUntilRenewed ==
    /\ [][(RefreshRuns /\ hist.refresh.ret' = "True")
             => token_expires_at' # token_expires_at]_vars
    /\ [][RefreshRuns => (RefreshStage /\ hist.refresh.at < clock)]_vars
    /\ [][(RefreshStage /\ hist.refresh.ret = "False") => RefreshRuns]_vars
    /\ [][(RefreshStage /\ hist.refresh.ret = "True"
              /\ (token_expires_at = 0 \/ now <= token_expires_at - 600))
             => ~RefreshRuns]_vars

\* C15 witness: a refresh has failed, the next tick's refresh succeeded, and
\* a later tick has gone through its refresh stage.
C15_Witness ==
    /\ hist.refresh.n = 2
    /\ hist.refresh.ret = "True"
    /\ hist.refresh.at < clock
    /\ pc = "heartbeat"

\* C16: a tick runs the refresh if and only if tokenExpiresAt > 0 and
\* now > tokenExpiresAt - 600, and the refresh runs nowhere else.
C16_RefreshCondition ==
    /\ [][RefreshStage =>
             (RefreshRuns <=> (token_expires_at > 0 /\ now > token_expires_at - 600))]_vars
    /\ [][RefreshRuns => RefreshStage]_vars
    /\ [](token_expires_at = 0 => hist.refresh.n = 0 \/ hist.refresh.ret = "True")

\* C16 witness: the tick has just run the refresh, one second past the
\* margin; the tick before, on the margin, did not.
C16_Witness ==
    /\ pc = "heartbeat"
    /\ hist.refresh.n = 1
    /\ hist.refresh.at = clock
    /\ clock = StartClock + SecondsToMargin + 1

\* C17 (as claimed): a refresh that fails leaves the token and the expiry as
\* they were and the tick goes on, and the next tick past the margin runs
\* the refresh again.
C17_FailedRefreshKeepsToken ==
    /\ [][(RefreshRuns /\ hist.refresh.ret' = "False") =>
             /\ config.firebase_token' = config.firebase_token
             /\ token_expires_at' = token_expires_at
             /\ pc' = "heartbeat"]_vars
    /\ [][(RefreshStage /\ hist.refresh.ret = "False"
              /\ now > token_expires_at - 600) => RefreshRuns]_vars

\* C18 (as claimed): the token of the store client is the token of the
\* configuration, in every state.
C18_StoreUsesCurrentToken ==
    rtdb_token # 0 => rtdb_token = config.firebase_token

\* C19: run() ends only at the test at the top of the loop and only with the
\* shutdown event set; a tick that fails, whatever failed in it, leads back
\* to the top of the loop, and with the event not set the top starts a tick.
C19_StopsOnlyOnShutdown ==
    /\ [](pc = "stopped" => shutdown)
    /\ [][(pc' = "stopped" /\ pc # "stopped") => (pc = "top" /\ shutdown)]_vars
    /\ [][(pc = "except" /\ pc' # pc) => pc' = "top"]_vars
    /\ [][(pc = "top" /\ ~shutdown /\ pc' # pc) => pc' = "refresh"]_vars

\* C19 witness: the heartbeat raised in the first tick, the handler slept, and
\* the loop is at its top again with the event not set.
C19_Witness ==
    /\ pc = "top"
    /\ ~shutdown
    /\ hist.heartbeats = 1
    /\ last_heartbeat = 0
    /\ clock = StartClock + ErrorSleep

\* The sleep that ends the tick in progress fits before the model's horizon.
CanFinishTick ==
    \/ pc \in {"top", "stopped"}
    \/ clock + ErrorSleep + MaxCallTime <= horizon
    \/ /\ pc \notin {"refresh", "heartbeat", "except"}
       /\ clock + TickSleep + MaxCallTime <= horizon

\* C20: the signal handler only sets the event, the step in progress is not
\* cut short; with the event set the top of the loop starts no tick; and
\* once the event is set the loop ends.
C20_ShutdownEndsLoop ==
    /\ [][(shutdown' /\ ~shutdown) => (pc' = pc /\ cpc' = cpc)]_vars
    /\ [][(shutdown /\ pc = "top" /\ pc' # pc) => pc' = "stopped"]_vars
    /\ [][(shutdown /\ pc \notin {"top", "stopped"} /\ pc' # pc) => pc' # "stopped"]_vars
    /\ (shutdown /\ CanFinishTick) ~> (pc = "stopped")

\* C20 witness: the event was set, the tick in progress went through its
\* telemetry push and its poll cycle, and the loop has ended at its top.
C20_Witness ==
    /\ pc = "stopped"
    /\ shutdown
    /\ hist.telemetry = 1
    /\ last_poll = now

\* A tick of run() comes to its end: the loop is back at its top.
TickEnds == pc # "top" /\ pc' = "top"

\* C21: a failure in one due action stays local to that action, so that at
\* the end of every tick each due action has run: the heartbeat and the
\* telemetry timers are not overdue and, with the store configured, the
\* poll cycle has run in this tick.
C21_FailureIsLocal ==
    [][TickEnds =>
          /\ now - last_heartbeat' < config.heartbeat_interval
          /\ now - last_telemetry' < config.telemetry_interval
          /\ (rtdb_token # 0 => last_poll' = now)]_vars

\* The routing decision has been taken.
Routed == route.target # NoAddress

\* Originator and device are two IPv4 addresses of one /24 network: their
\* first three octets are equal.
ShareSlash24 ==
    /\ route.user_ip.kind = "v4"
    /\ route.printer_ip.kind = "v4"
    /\ \A i \in 1..3 : route.user_ip.octets[i] = route.printer_ip.octets[i]

\* C22: with an originator address supplied and the device's LAN address
\* known, the target is the LAN address when the two do not share a /24
\* network and the loopback endpoint when they do; with either of them
\* missing the target is the loopback endpoint.
C22_RoutingRule ==
    Routed =>
        IF route.user_ip # NoAddress /\ route.printer_ip # NoAddress
        THEN route.target = IF ShareSlash24 THEN Loopback ELSE route.printer_ip
        ELSE route.target = Loopback

\* C22 witness: an originator of another /24 network of the same /16 range
\* was routed to the device's LAN address.
C22_Witness ==
    /\ Routed
    /\ route.printer_ip = V4(10, 0, 0, 5)
    /\ route.user_ip = V4(10, 0, 1, 5)
    /\ route.target = route.printer_ip

\* C23 as stated: with the device at 10.0.0.5, originator 10.0.0.9 is routed
\* to the device's LAN address and originator 10.0.1.9 to the loopback
\* endpoint.
C23_ExampleAsStated ==
    (Routed /\ route.printer_ip = V4(10, 0, 0, 5)) =>
        /\ (route.user_ip = V4(10, 0, 0, 9) => route.target = route.printer_ip)
        /\ (route.user_ip = V4(10, 0, 1, 9) => route.target = Loopback)

\* C23: with the device at 10.0.0.5, originator 10.0.0.9 (same /24 network)
\* is routed to the loopback endpoint and originator 10.0.1.9 (another /24
\* network) to the device's LAN address.
C23_ExampleAsCoded ==
    (Routed /\ route.printer_ip = V4(10, 0, 0, 5)) =>
        /\ (route.user_ip = V4(10, 0, 0, 9) => route.target = Loopback)
        /\ (route.user_ip = V4(10, 0, 1, 9) => route.target = route.printer_ip)

\* C23 witness: the device is at 10.0.0.5 and originator 10.0.0.9 was routed
\* to the loopback endpoint.
C23_Witness ==
    /\ Routed
    /\ route.printer_ip = V4(10, 0, 0, 5)
    /\ route.user_ip = V4(10, 0, 0, 9)
    /\ route.target = Loopback

\* get_status has returned a snapshot.
HasSnapshot == moonraker.called /\ moonraker.snapshot.ok

\* C24: in every snapshot 0 <= progressPercent <= 100, whatever durations
\* the device reports, and the progress is 0 when the total duration is 0
\* or missing.
C24_ProgressInRange ==
    HasSnapshot =>
        LET p == moonraker.snapshot.progress
            total == Get(moonraker.response.print_stats.total_duration, 0)
        IN  /\ 0 <= p.num
            /\ p.num <= 100 * p.den
            /\ (total.v = 0 => p.num = 0)

\* C25: standby maps to idle, printing to printing, paused to paused, error
\* to error, every other upstream state and a missing state to unknown; the
\* mapped state is one of idle, printing, paused, error, unknown.
C25_JobStateMapping ==
    HasSnapshot =>
        LET upstream == moonraker.response.print_stats.state
            mapped == moonraker.snapshot.state
        IN  /\ (upstream = "standby" => mapped = "idle")
            /\ (upstream \in {"printing", "paused", "error"} => mapped = upstream)
            /\ (upstream \notin {"standby", "printing", "paused", "error"}
                    => mapped = "unknown")
            /\ mapped \in {"idle", "printing", "paused", "error", "unknown"}

\* C25 witness: a finished print ("complete") and a reply without a state
\* are both reported as unknown.
C25_Witness ==
    /\ HasSnapshot
    /\ moonraker.response.print_stats.state \in {"complete", "missing"}
    /\ moonraker.snapshot.state = "unknown"

\* The step of run() in which get_status is called (telemetry is due).
StatusStage ==
    /\ pc = "telemetry"
    /\ pc' # pc
    /\ now - last_telemetry >= config.telemetry_interval

\* C26: a get_status that fails returns None: the stage goes on to the
\* command poll of the same tick, changing nothing but the telemetry timer;
\* telemetry is pushed only from a snapshot; and the poll stage follows as
\* in any tick.
C26_FailedStatusSkipsTelemetry ==
    /\ [][StatusStage => pc' \in {"send_telemetry", "commands"}]_vars
    /\ [][(StatusStage /\ pc' = "commands")
             => /\ last_telemetry' = now
                /\ UNCHANGED <<cmdvars, http, clock, now, last_heartbeat,
                               token_expires_at, shutdown, config, rtdb_token, seen401,
                               last_poll, hist>>]_vars
    /\ [][hist.telemetry' # hist.telemetry => pc = "send_telemetry"]_vars
    /\ [][(pc = "commands" /\ pc' # pc)
             => pc' = IF rtdb_token # 0 THEN "commands_in" ELSE "sleep"]_vars

\* C26 witness: get_status failed in the first tick and again in the next
\* tick in which telemetry was due; no telemetry was sent, and the poll
\* cycle of that later tick has run.
C26_Witness ==
    /\ pc = "sleep"
    /\ hist.telemetry = 0
    /\ now = StartClock + config.telemetry_interval
    /\ last_telemetry = now
    /\ last_poll = now

\* The step is a call of update_printer_status.
UpdateCalled ==
    /\ fb'.op = "update_printer_status"
    /\ fb'.time = fb.time
    /\ fb' # fb

\* C27: a call of update_printer_status with the status of the last
\* successful write issues no PATCH and returns True.
C27_SameStatusIsNotWritten ==
    [][(UpdateCalled /\ fb'.status = fb.last_status.status)
          => (fb'.sent = 0 /\ fb'.ret = "True")]_vars

\* C28: a read of the command subtree that finds it empty or missing (the
\* store answers null) yields the empty mapping, and a read that failed
\* yields something else.
C28_EmptyReadIsNotAnError ==
    fb.op = "get_queued_commands" =>
        /\ (fb.reply = "null" => fb.ret = "{}")
        /\ (fb.reply \in FbFailed => fb.ret # "{}")

\* The step of run() in which the relay heartbeat is sent (a heartbeat is due).
HeartbeatStage ==
    /\ pc = "heartbeat"
    /\ pc' # pc
    /\ now - last_heartbeat >= config.heartbeat_interval

\* C29: in a tick in which a heartbeat is due the relay heartbeat is
\* attempted whatever the state of the store, and with the store configured
\* the store heartbeat is attempted next, whatever became of the relay
\* heartbeat.
C29_HeartbeatsIndependent ==
    /\ [][HeartbeatStage => hist.heartbeats' = hist.heartbeats + 1]_vars
    /\ [][(HeartbeatStage /\ rtdb_token # 0) => pc' = "heartbeat_rtdb"]_vars
    /\ [][(pc = "heartbeat_rtdb" /\ pc' # pc) => last_heartbeat' = now]_vars

\* The steps of process_pending_commands that write a result and that
\* delete an entry, and the request id they are about.
WriteStep == cpc = "write" /\ cpc' = "delete"
DeleteStep == cpc = "delete" /\ idx' = idx + 1
CurrentId == commands[idx].request_id

\* C30: a result is written under its request id, in place of whatever was
\* stored there, so that processing a request id again leaves one entry for
\* it; the write changes no queue entry and no result of another request
\* id, and the delete changes no result and no queue entry of another
\* request id.
C30_RedeliveryIsIdempotentSafe ==
    /\ [][WriteStep =>
            /\ responses'[CurrentId] \in {responses[CurrentId], ResponseStatus(result)}
            /\ \A r \in RequestIds \ {CurrentId} : responses'[r] = responses[r]
            /\ queue' = queue]_vars
    /\ [][DeleteStep =>
            /\ responses' = responses
            /\ queue'[CurrentId] \in {queue[CurrentId], "absent"}
            /\ \A r \in RequestIds \ {CurrentId} : queue'[r] = queue[r]]_vars

\* C30 witness: a request id whose result is in the store from an earlier
\* cycle has been delivered and executed again, its result is about to be
\* written once more, and the other request id has a result in the store.
C30_Witness ==
    /\ cpc = "write"
    /\ responses[CurrentId] # "none"
    /\ \E r \in RequestIds \ {CurrentId} : responses[r] # "none"

\* The entries the read returned that are not key-value objects.
Malformed == {i \in 1..Len(commands) : commands[i].kind = "scalar"}

\* The step in which read_commands returns.
ReadStep == cpc = "read" /\ cpc' # "read"

\* C31: an entry whose processing raises is never proxied nor answered, and
\* once the loop is past it exactly one delete has been issued for it in
\* the cycle that read it; a device result whose handling raises leads to
\* the delete as well; a delete the store accepts removes the entry; and a
\* read returns entries of the queue only, so a removed entry is not read
\* (nor processed) again.
C31_MalformedIsDiscarded ==
    /\ [](\A i \in Malformed :
            /\ Calls("device", commands[i].request_id) = {}
            /\ Calls("write", commands[i].request_id) = {}
            /\ Finished(i) => Cardinality(Calls("delete", commands[i].request_id)) = 1)
    /\ [][(cpc = "device" /\ cpc' # cpc /\ ResultRaises(result')) => cpc' = "delete"]_vars
    /\ [][(DeleteStep /\ log'[Len(log')].ok) => queue'[CurrentId] = "absent"]_vars
    /\ [][ReadStep => \A i \in 1..Len(commands') :
                         queue[commands'[i].request_id] = commands'[i].kind]_vars

\* C31 witness: a finished cycle that read an entry that is not an object,
\* issued the delete for it, and the store accepted the delete.
C31_Witness ==
    /\ cpc = "done"
    /\ \E i \in Malformed :
        /\ \E d \in Calls("delete", commands[i].request_id) : log[d].ok
        /\ queue[commands[i].request_id] = "absent"

\* C32: under fairness of the loop and with calls that succeed in the end,
\* every well-formed command in the queue that has no result yet gets a
\* result written for its request id, and is removed from the queue.
C32_CommandEventuallyAnswered ==
    \A r \in RequestIds :
        /\ (queue[r] = "cmd" /\ responses[r] = "none") ~> (responses[r] # "none")
        /\ (queue[r] = "cmd") ~> (queue[r] = "absent")

\* The position in the read of the entry a logged call is about.
EntryOf(j) == CHOOSE i \in 1..Len(commands) : commands[i].request_id = log[j].rid

\* C33: the calls of a cycle follow the order of the entries in the read,
\* one entry at a time: when the device call for an entry is issued, every
\* earlier entry with a command has had its device call and its delete, and
\* no call for an earlier entry follows; the results are written in the
\* order of the entries.
C33_OneAtATime ==
    /\ \A j \in 1..(Len(log) - 1) : EntryOf(j) <= EntryOf(j + 1)
    /\ \A k \in CallsOf("device") :
          \A i \in WithCommand :
              i < EntryOf(k) =>
                  /\ \E d \in Calls("device", commands[i].request_id) : d < k
                  /\ \E d \in Calls("delete", commands[i].request_id) : d < k
    /\ \A j, k \in CallsOf("write") : j < k => EntryOf(j) < EntryOf(k)
    /\ \A w \in CallsOf("write") :
          \E d \in Calls("device", log[w].rid) : d < w

\* C33 witness: a finished cycle over two commands; the second device call
\* came after the first command's device call, result write and delete.
C33_Witness ==
    /\ cpc = "done"
    /\ Len(commands) = 2
    /\ Len(log) = 6
    /\ log[3].op = "delete" /\ log[3].rid = commands[1].request_id
    /\ log[4].op = "device" /\ log[4].rid = commands[2].request_id
    /\ log[2].op = "write" /\ log[5].op = "write"

\* C34: dequeue_command returns True when the store accepted the DELETE
\* (it answers with a null or an empty body) and False when the DELETE
\* failed.
C34_DequeueReportsDeletion ==
    fb.op = "dequeue_command" =>
        /\ (fb.reply \in {"null", "empty"} => fb.ret = "True")
        /\ (fb.reply \in FbFailed => fb.ret = "False")

\* C35: self.last_status changes only in a call of update_printer_status
\* whose PATCH the client took for successful, and then to the record just
\* written; a failed PATCH and a skipped call leave it as it was; and the
\* call that follows a failed PATCH with the same status sends the PATCH
\* again.
C35_CacheFollowsSuccessfulWrites ==
    /\ [][fb'.last_status # fb.last_status =>
            /\ UpdateCalled
            /\ fb'.sent = 1
            /\ fb'.ret = "True"
            /\ fb'.last_status = current_status(fb'.status, fb.time)]_vars
    /\ [][(UpdateCalled /\ (fb'.ret = "False" \/ fb'.sent = 0))
             => fb'.last_status = fb.last_status]_vars
    /\ [][(UpdateCalled /\ fb.op = "update_printer_status" /\ fb.ret = "False"
              /\ fb'.status = fb.status)
             => fb'.sent = 1]_vars

\* C35 witness: after a successful write of one status the PATCH of another
\* status has failed, and the cache still holds the record written first.
C35_Witness ==
    /\ fb.op = "update_printer_status"
    /\ fb.ret = "False"
    /\ fb.sent = 1
    /\ fb.status = "printing"
    /\ fb.last_status.status = "idle"
    /\ fb.last_status.lastHeartbeat < fb.time

\* C36: a refresh that returns True leaves token_expires_at positive, so
\* that should_refresh_token can hold again later.
C36_RefreshKeepsTimerArmed ==
    [][(RefreshRuns /\ hist.refresh.ret' = "True") => token_expires_at' > 0]_vars

\* C37: a heartbeat or telemetry attempt is made only when it is due, and
\* its timer is set to the tick's start time before the tick goes on,
\* whatever became of the attempt; so that two attempts of one kind are at
\* least one interval apart.
C37_TimersAdvanceOnAttempt ==
    /\ [][hist.heartbeats' # hist.heartbeats
             => now - last_heartbeat >= config.heartbeat_interval]_vars
    /\ [][hist.telemetry' # hist.telemetry
             => now - last_telemetry >= config.telemetry_interval]_vars
    /\ [][HeartbeatStage =>
             IF rtdb_token # 0 THEN pc' = "heartbeat_rtdb" ELSE last_heartbeat' = now]_vars
    /\ [][(pc = "heartbeat_rtdb" /\ pc' # pc) => last_heartbeat' = now]_vars
    /\ [][StatusStage => (pc' = "send_telemetry" \/ last_telemetry' = now)]_vars
    /\ [][(pc = "send_telemetry" /\ pc' # pc) => last_telemetry' = now]_vars

\* C38: in the first tick after startup the heartbeat and the telemetry
\* action are both due and both run: when that tick ends one heartbeat has
\* been sent and get_status has been called (the telemetry timer is set).
C38_FirstTickRunsBoth ==
    [][(TickEnds /\ now = StartClock)
          => (hist.heartbeats' = 1 /\ last_telemetry' = now)]_vars

\* The tick in progress is past a refresh_firebase_token that returned True.
RefreshedThisTick ==
    /\ hist.refresh.ret = "True"
    /\ hist.refresh.at = now
    /\ pc \notin {"top", "refresh", "stopped"}

\* A step that issues a call to the store: the heartbeat PATCH, the read
\* of the queue, a result write, a delete.
StoreCall ==
    \/ pc = "heartbeat_rtdb" /\ pc' # pc
    \/ cpc \in {"read", "write", "delete"} /\ <<cpc, idx>>' # <<cpc, idx>>

\* C39: the refresh is the first stage of a tick, before the heartbeat, the
\* telemetry and the command stage, and every store call of a tick whose
\* refresh returned True is made with the token that refresh obtained, the
\* one the configuration holds.
C39_StoreCallsCarryRefreshedToken ==
    /\ [][RefreshRuns => (pc = "refresh" /\ pc' = "heartbeat")]_vars
    /\ [][(pc = "top" /\ pc' # pc) => pc' \in {"refresh", "stopped"}]_vars
    /\ [][StoreCall => pc \notin {"top", "refresh"}]_vars
    /\ [][(StoreCall /\ RefreshedThisTick) => rtdb_token = config.firebase_token]_vars
    /\ [][(RefreshRuns /\ hist.refresh.ret' = "True")
             => (config.firebase_token' # config.firebase_token
                 /\ rtdb_token' = config.firebase_token')]_vars

\* C39 witness: in a tick whose refresh returned True the store heartbeat
\* and the read have been made and the result of a command is being
\* written, with the new token.
C39_Witness ==
    /\ RefreshedThisTick
    /\ cpc = "delete"
    /\ \E w \in CallsOf("write") : log[w].ok
    /\ rtdb_token = config.firebase_token
    /\ rtdb_token > 1

\* The step in which the device call for the current entry is made.
DeviceStep == cpc = "device" /\ cpc' # cpc

\* C40: within a cycle no request id is proxied to the device twice; a
\* device call is made only for an entry that is in the queue when it is
\* made; an entry leaves the queue by a delete that the store accepted and
\* comes back only when a client enqueues it, never by a step of the agent.
C40_ExecutedAgainOnlyIfQueued ==
    /\ [][DeviceStep => (Calls("device", CurrentId) = {} /\ queue[CurrentId] = "cmd")]_vars
    /\ [][(DeleteStep /\ log'[Len(log')].ok) => queue'[CurrentId] = "absent"]_vars
    /\ [][\A r \in RequestIds :
             (queue[r] = "absent" /\ queue'[r] # "absent")
                 => UNCHANGED <<cpc, commands, idx, log, responses>>]_vars
    /\ [][ReadStep => \A i \in 1..Len(commands') :
                         queue[commands'[i].request_id] # "absent"]_vars

\* C40 witness: a command whose result is in the store from an earlier
\* cycle, and whose delete failed then, has been proxied to the device
\* again in this cycle.
C40_Witness ==
    /\ cpc = "write"
    /\ Calls("device", CurrentId) # {}
    /\ responses[CurrentId] # "none"
    /\ queue[CurrentId] = "cmd"

====
